---- MODULE Spec2Model ----
(***************************************************************************)
(* Model of convert_report2excel.py: the conversion of classification      *)
(* report tables into formatted worksheets (convert_report2excel) and the  *)
(* driver that converts every file of a directory into one workbook (main).*)
(*                                                                         *)
(* A report is a table: an ordered list of column names and an ordered     *)
(* list of rows.  The first column holds the row labels; the cell of table *)
(* row i (1-based) in column c > 1 holds the number CellNumber(i, c), so   *)
(* that every cell of a table holds a value no other cell holds.           *)
(*                                                                         *)
(* A worksheet is a grid of cells, each with a value, a border (four       *)
(* sides), a font, a fill and a number format, plus the list of            *)
(* conditional-formatting ranges.  Cells that were never written hold the  *)
(* defaults of a fresh cell.                                               *)
(***************************************************************************)
EXTENDS Integers, Sequences, FiniteSets, TLC

(* ------------------------------ bounds --------------------------------- *)

\* Largest number of rows of a report table.
MaxRows == 3

\* Largest number of files in the report directory (specification SpecMain).
MaxFiles == 2

(* ------------------------------ values --------------------------------- *)

\* Cell values: None (an empty cell), a string, or a number.
None == [kind |-> "none", s |-> "", n |-> 0]

Str(s) == [kind |-> "str", s |-> s, n |-> 0]

Num(n) == [kind |-> "num", s |-> "", n |-> n]

\* The number held by the cell of table row i (1-based), column c.
CellNumber(i, c) == 10 * i + c

IsInjective(f) == \A x, y \in DOMAIN f : f[x] = f[y] => x = y

\* All sequences over S of length lo..hi.
SeqsOf(S, lo, hi) == UNION {[1..k -> S] : k \in lo..hi}

(* ------------------------------ reports -------------------------------- *)

\* Names the first column of a CSV file may carry: unnamed (pandas reads an
\* empty header as "Unnamed: 0"), "index" (a reset index), "class", or
\* another name.
FirstNames == {"Unnamed: 0", "index", "class", "label"}

\* Names of the other columns: the ones the code looks up by name.
OtherNames == {"precision", "recall", "support", "predicted"}

\* The largest number of columns of a report table.
MaxCols == 1 + Cardinality(OtherNames)

\* Row labels: a class, or one of the aggregate rows the code looks for.
Labels == {"A", "accuracy", "micro avg"}

\* Column lists: a first column followed by distinct other columns, in any
\* order.
ColumnLists ==
    {<<f>> \o rest : f \in FirstNames,
                     rest \in {q \in SeqsOf(OtherNames, 0, MaxCols - 1) : IsInjective(q)}}

\* Every report table within the bounds.
Reports ==
    {[ok |-> TRUE, cols |-> cs, labels |-> ls] :
        cs \in ColumnLists, ls \in SeqsOf(Labels, 0, MaxRows)}

\* A file pandas cannot parse.
Malformed == [ok |-> FALSE, cols |-> <<>>, labels |-> <<>>]

\* report.shape[0], report.shape[1]
NRows(report) == Len(report.labels)

NCols(report) == Len(report.cols)

\* The value of table row i (1-based), column c.
TableValue(report, i, c) ==
    IF c = 1 THEN Str(report.labels[i]) ELSE Num(CellNumber(i, c))

HasColumn(report, name) == \E c \in 1..NCols(report) : report.cols[c] = name

\* report.columns.get_loc(name) + 1, for a column that exists.
ColumnOf(report, name) == CHOOSE c \in 1..NCols(report) : report.cols[c] = name

(* ----------------------------- worksheets ------------------------------ *)

\* The cells a conversion can touch: it reads one row below the table and
\* writes one column to the right of the `support` column.
GridRows == 1..(MaxRows + 2)

GridCols == 1..(MaxCols + 1)

Grid == GridRows \X GridCols

\* Border(left=..., right=..., top=..., bottom=...); a side left out is
\* Side() with no style.
Border(l, r, t, b) == [left |-> l, right |-> r, top |-> t, bottom |-> b]

NoBorder == Border("none", "none", "none", "none")

\* Font(name="Arial", bold=True) and Font(name="Arial", bold=False)
header_font == [name |-> "Arial", bold |-> TRUE]

default_font == [name |-> "Arial", bold |-> FALSE]

\* PatternFill(start_color="D9D9D9", end_color="D9D9D9", fill_type="solid")
header_color == "D9D9D9"

\* Floating point precision.
float_prec == "0.0000"

\* A cell nothing was written to.
FreshCell ==
    [value |-> None, border |-> NoBorder,
     font |-> [name |-> "Calibri", bold |-> FALSE], fill |-> "none",
     number_format |-> "General"]

\* Sheet titles: the characters asked for and the number the workbook
\* appended to keep titles unique (0: none appended).
Title(name, count) == [name |-> name, count |-> count]

\* Worksheet(parent, title): a sheet with no cell written and no rule.
NewSheet(title) == [title |-> title, cells |-> [p \in Grid |-> FreshCell], cf |-> <<>>]

\* A cell range such as "A1:C3": columns min_col..max_col of rows
\* min_row..max_row.
CellRange(min_col, min_row, max_col, max_row) ==
    [min_col |-> min_col, min_row |-> min_row, max_col |-> max_col, max_row |-> max_row]

\* Whether worksheet[range] yields the cell at p = <<row, column>>: no cell
\* when a bound of the range is reversed.
InRange(p, range) ==
    /\ range.min_row <= p[1] /\ p[1] <= range.max_row
    /\ range.min_col <= p[2] /\ p[2] <= range.max_col

\* The rows without the header row, as dataframe_to_rows(header=False)
\* yields them: C1 tells this from DataframeToRows.
DataframeToRowsNoHeader(report) ==
    [i \in 1..NRows(report) |-> [c \in 1..NCols(report) |-> TableValue(report, i, c)]]

\* dataframe_to_rows(df=report, index=False): the header, then the rows.
DataframeToRows(report) ==
    <<[c \in 1..NCols(report) |-> Str(report.cols[c])]>>
    \o [i \in 1..NRows(report) |-> [c \in 1..NCols(report) |-> TableValue(report, i, c)]]

\* for row in df_xl: worksheet.append(row), on a sheet without rows: the
\* k-th row appended becomes sheet row k.
AppendRows(ws, rows) ==
    [ws EXCEPT !.cells = [p \in Grid |->
        IF p[1] \in 1..Len(rows) /\ p[2] \in 1..Len(rows[p[1]])
        THEN [@[p] EXCEPT !.value = rows[p[1]][p[2]]]
        ELSE @[p]]]

\* The rename of the label column to `class`.
RenameColumns(report) ==
    LET from == IF HasColumn(report, "index") THEN "index" ELSE "Unnamed: 0"
    IN [report EXCEPT !.cols = [c \in 1..NCols(report) |->
                                  IF report.cols[c] = from THEN "class" ELSE report.cols[c]]]

(* --------------------------- formatting steps -------------------------- *)

\* The border the outer-boundary loop assigns to the cell at row r, column
\* c of a table of n rows and m columns; `old` when no branch applies.
OuterBorderOf(r, c, n, m, old) ==
    IF r = 1 /\ c = 1 THEN Border("thin", "none", "thin", "none")
    ELSE IF r = 1 /\ c = n THEN Border("none", "thin", "thin", "none")
    ELSE IF r = n + 1 /\ c = 1 THEN Border("thin", "none", "none", "thin")
    ELSE IF r = n + 1 /\ c = m THEN Border("none", "thin", "none", "thin")
    ELSE IF r \in 1..n /\ c = 1 THEN Border("thin", "none", "none", "none")
    ELSE IF r \in 1..n /\ c = m THEN Border("none", "thin", "none", "none")
    ELSE IF r = 1 /\ c \in 1..m THEN Border("none", "none", "thin", "none")
    ELSE IF r = n + 1 /\ c \in 1..m THEN Border("none", "none", "none", "thin")
    ELSE old

\* Outer boundary formatting.
OuterBoundary(ws, report) ==
    LET n == NRows(report)
        m == NCols(report)
    IN [ws EXCEPT !.cells = [p \in Grid |->
        IF InRange(p, CellRange(1, 1, m, n + 1))
        THEN [@[p] EXCEPT !.border = OuterBorderOf(p[1], p[2], n, m, @)]
        ELSE @[p]]]

\* Header boundary: the first row of the range A1:<m><m>.
HeaderBoundary(ws, report) ==
    LET m == NCols(report)
    IN [ws EXCEPT !.cells = [p \in Grid |->
        IF InRange(p, CellRange(1, 1, m, 1))
        THEN [@[p] EXCEPT !.border.bottom = "thin"]
        ELSE @[p]]]

\* Support boundary.
SupportBoundary(ws, report, support_col) ==
    [ws EXCEPT !.cells = [p \in Grid |->
        IF InRange(p, CellRange(support_col, 1, support_col, NRows(report) + 1))
        THEN [@[p] EXCEPT !.border.left = "thin"]
        ELSE @[p]]]

\* Label boundary.
LabelBoundary(ws, report) ==
    [ws EXCEPT !.cells = [p \in Grid |->
        IF InRange(p, CellRange(1, 1, 1, NRows(report) + 1))
        THEN [@[p] EXCEPT !.border.right = "thin"]
        ELSE @[p]]]

\* The table rows (1-based) whose label is `label`.
RowsLabelled(report, label) == {i \in 1..NRows(report) : report.labels[i] = label}

MinOf(S) == CHOOSE x \in S : \A y \in S : x <= y

\* The row one below the labelled row: C3 tells this from IndexPlus2.
IndexPlus3(report, label) == (MinOf(RowsLabelled(report, label)) - 1) + 3

\* report[report.iloc[:, 0] == label].index[0] + 2, the index counting rows
\* from 0: defined when a row carries the label.
IndexPlus2(report, label) == (MinOf(RowsLabelled(report, label)) - 1) + 2

\* Whether the divider step finds its row: the lookup of `micro avg` raises
\* IndexError when neither label is in the first column.
DividerFound(report) ==
    RowsLabelled(report, "accuracy") # {} \/ RowsLabelled(report, "micro avg") # {}

\* avg_row after the divider step.
AvgRow(report) ==
    IF RowsLabelled(report, "accuracy") # {} THEN IndexPlus2(report, "accuracy")
    ELSE IF RowsLabelled(report, "micro avg") # {} THEN IndexPlus2(report, "micro avg")
    ELSE NRows(report) + 2

\* The divider drawn at avg_row whether or not a label was found: C4 tells
\* this from AvgDivider.
AvgDividerAlways(ws, report) ==
    [ws EXCEPT !.cells = [p \in Grid |->
        IF InRange(p, CellRange(1, AvgRow(report), NCols(report), AvgRow(report)))
        THEN [@[p] EXCEPT !.border.top = "thick"]
        ELSE @[p]]]

\* Thick avg divider; the IndexError of a label not found is caught and the
\* sheet left as it was.
AvgDivider(ws, report) ==
    IF DividerFound(report)
    THEN [ws EXCEPT !.cells = [p \in Grid |->
            IF InRange(p, CellRange(1, AvgRow(report), NCols(report), AvgRow(report)))
            THEN [@[p] EXCEPT !.border.top = "thick"]
            ELSE @[p]]]
    ELSE ws

\* The range of the color-scale rule.
GridRange(report, avg_row, support_col) ==
    CellRange(ColumnOf(report, "precision"), 1, support_col - 1, avg_row + 2)

\* worksheet.conditional_formatting.add(range_string=grid_range, ...)
AddConditionalFormatting(ws, range) == [ws EXCEPT !.cf = Append(@, range)]

\* Format fonts.
FormatFonts(ws, report) ==
    [ws EXCEPT !.cells = [p \in Grid |->
        IF InRange(p, CellRange(1, 1, NCols(report), NRows(report) + 1))
        THEN IF p[1] = 1 \/ p[2] = 1
              THEN [@[p] EXCEPT !.font = header_font, !.fill = header_color]
              ELSE [@[p] EXCEPT !.font = default_font]
        ELSE @[p]]]

\* The number format applied from B2 through the `support` column: C5 tells
\* this from FormatPrecision.
FormatPrecisionThroughSupport(ws, report, support_col) ==
    [ws EXCEPT !.cells = [p \in Grid |->
        IF InRange(p, CellRange(2, 2, support_col, NRows(report) + 1))
        THEN [@[p] EXCEPT !.number_format = float_prec]
        ELSE @[p]]]

\* Format floating point precision: B2 to the column left of `support`.
FormatPrecision(ws, report, support_col) ==
    [ws EXCEPT !.cells = [p \in Grid |->
        IF InRange(p, CellRange(2, 2, support_col - 1, NRows(report) + 1))
        THEN [@[p] EXCEPT !.number_format = float_prec]
        ELSE @[p]]]

\* worksheet.cell(row, column).value = v
SetValue(ws, row, column, v) == [ws EXCEPT !.cells[<<row, column>>].value = v]

\* The accuracy fix as far as the blanking of the precision cell.
BlankPrecision(ws, report, avg_row) ==
    SetValue(ws, avg_row, ColumnOf(report, "precision"), Str(""))

\* The column the accuracy fix writes the support value to when the table
\* has a `predicted` column.
PredictedTarget(report, support_col) == support_col + 1

\* The whole accuracy fix, for a table that has a `recall` column.
FixAccuracy(ws, report, avg_row, support_col) ==
    LET ws1 == BlankPrecision(ws, report, avg_row)
        ws2 == SetValue(ws1, avg_row, ColumnOf(report, "recall"), Str(""))
        support_value == ws2.cells[<<avg_row + 1, support_col>>].value
        ws3 == SetValue(ws2, avg_row, support_col, support_value)
    IN IF HasColumn(report, "predicted")
       THEN SetValue(ws3, avg_row, PredictedTarget(report, support_col), support_value)
       ELSE ws3

(* ------------------------------ file names ----------------------------- *)

\* Paths are sequences of characters.  The names of the files a directory
\* holds here: "a.a", "a." and "b.a" (names with a dot after the stem, two
\* of them with the same stem) and ".a" (a name that starts with its dot).
FileNames == {<<"a", ".", "a">>, <<"a", ".">>, <<"b", ".", "a">>, <<".", "a">>}

\* The directories --report_dir can name: the current one ("") or "d".
Dirs == {<<>>, <<"d">>}

\* os.path.join(report_dir, f)
PathJoin(dir, f) == IF dir = <<>> THEN f ELSE dir \o <<"/">> \o f

\* p.rfind(ch) + 1: the last position of ch in p, 0 when there is none.
LastIndexOf(p, ch) ==
    IF \E i \in 1..Len(p) : p[i] = ch
    THEN CHOOSE i \in 1..Len(p) : p[i] = ch /\ \A j \in (i + 1)..Len(p) : p[j] # ch
    ELSE 0

\* file.split("/")[-1]
LastSegment(p) == SubSeq(p, LastIndexOf(p, "/") + 1, Len(p))

\* os.path.splitext(p)[0]: p up to its last dot, when that dot follows the
\* last separator and a character other than a dot stands between them.
SplitextRoot(p) ==
    LET sep == LastIndexOf(p, "/")
        dot == LastIndexOf(p, ".")
    IN IF dot > sep /\ \E j \in (sep + 1)..(dot - 1) : p[j] # "."
       THEN SubSeq(p, 1, dot - 1)
       ELSE p

\* sheet_name = os.path.splitext(file.split("/")[-1])[0]
SheetName(file) == SplitextRoot(LastSegment(file))

(* ------------------------------ workbooks ------------------------------ *)

\* Workbook(): one default sheet, titled "Sheet", which is the active one.
NewWorkbook == <<NewSheet(Title(<<"S", "h", "e", "e", "t">>, 0))>>

\* workbook.active of a workbook whose active index was never changed.
ActiveIndex(wb) == 1

\* workbook.remove(sheet)
RemoveSheet(wb, i) == [j \in 1..(Len(wb) - 1) |-> IF j < i THEN wb[j] ELSE wb[j + 1]]

\* Workbook() with its default sheet kept: C6 tells this from StartWorkbook.
StartWorkbookWithDefault == NewWorkbook

\* The workbook main starts from: Workbook() with the default sheet removed.
StartWorkbook == RemoveSheet(NewWorkbook, ActiveIndex(NewWorkbook))

\* The title the workbook gives a new sheet asked to be called `name`: the
\* name itself, or, when a sheet has that title, the name followed by the
\* next number not in use with it.
AvoidDuplicateName(wb, name) ==
    LET same == {i \in 1..Len(wb) : wb[i].title.name = name}
        highest == IF same = {} THEN 0
                   ELSE CHOOSE h \in {wb[i].title.count : i \in same} :
                            \A i \in same : wb[i].title.count <= h
    IN IF \E i \in same : wb[i].title.count = 0
       THEN Title(name, highest + 1)
       ELSE Title(name, 0)

\* workbook.create_sheet(title=sheet_name), then the rows appended.
CreateSheet(wb, report, name) ==
    Append(wb, AppendRows(NewSheet(AvoidDuplicateName(wb, name)), DataframeToRows(report)))

\* The workbook with its last sheet, the one being formatted, replaced.
WithWorksheet(wb, ws) == [wb EXCEPT ![Len(wb)] = ws]

(* -------------------------------- state -------------------------------- *)

VARIABLES
    args,             \* the command line: report_dir, report_filename
    listing,          \* the files of report_dir, in os.listdir order: name, content
    report_filepaths, \* main's list of files to convert
    pc,               \* the statement main or convert_report2excel is at
    k,                \* the position in report_filepaths of the file at hand
    report,           \* the table being converted
    sheet_name,       \* the sheet name main derived for it
    workbook,         \* the workbook's sheets, in order
    support_col,      \* convert_report2excel's local (0: not assigned yet)
    avg_row,          \* convert_report2excel's local (0: not assigned yet)
    error,            \* the exception that ended the run ("": none)
    output            \* the workbook file written by workbook.save

vars == <<args, listing, report_filepaths, pc, k, report, sheet_name, workbook,
          support_col, avg_row, error, output>>

\* The sheet convert_report2excel is formatting.
worksheet == workbook[Len(workbook)]

\* The content of the file at `path`.
ContentOf(path) ==
    LET i == CHOOSE i \in 1..Len(listing) : PathJoin(args.report_dir, listing[i].name) = path
    IN listing[i].content

\* The states main can start from: a directory holding at most maxFiles
\* files with distinct names, and a command line naming the directory
\* (--report_dir) or, when byName, the one file (--report_filename).
InitOf(dirs, names, contents, maxFiles, byName) ==
    /\ listing \in {q \in SeqsOf([name : names, content : contents], 0, maxFiles) :
                        \A i, j \in 1..Len(q) : q[i].name = q[j].name => i = j}
    /\ \E dir \in dirs :
          \/ args = [report_dir |-> dir, report_filename |-> <<>>]
          \/ /\ byName
             /\ Len(listing) = 1
             /\ args = [report_dir |-> dir, report_filename |-> PathJoin(dir, listing[1].name)]
    /\ report_filepaths = <<>>
    /\ pc = "start"
    /\ k = 0
    /\ report = Malformed
    /\ sheet_name = <<>>
    /\ workbook = <<>>
    /\ support_col = 0
    /\ avg_row = 0
    /\ error = ""
    /\ output = [saved |-> FALSE, sheets |-> <<>>]

(* ---------------------------- main's steps ----------------------------- *)

\* An exception the loop swallows, main going on to save: C9 tells this from
\* Raise.
RaiseAndSave(exc) ==
    /\ pc' = "save"
    /\ error' = exc

\* An exception nothing catches: the run ends there.
Raise(exc) ==
    /\ pc' = "failed"
    /\ error' = exc

\* main up to the loop: the list of files and the empty workbook.
MainStart ==
    /\ pc = "start"
    /\ report_filepaths' =
          IF args.report_filename # <<>>
          THEN <<args.report_filename>>
          ELSE [i \in 1..Len(listing) |-> PathJoin(args.report_dir, listing[i].name)]
    /\ workbook' = StartWorkbook
    /\ k' = 1
    /\ pc' = IF Len(report_filepaths') = 0 THEN "save" ELSE "read"
    /\ UNCHANGED <<args, listing, report, sheet_name, support_col, avg_row, error, output>>

\* The head of the loop body: pd.read_csv(file) and the sheet name.
ReadCsv ==
    /\ pc = "read"
    /\ LET file == report_filepaths[k]
       IN IF ContentOf(file).ok
          THEN /\ report' = ContentOf(file)
               /\ sheet_name' = SheetName(file)
               /\ pc' = "create"
               /\ UNCHANGED error
          ELSE /\ Raise("ParserError")
               /\ UNCHANGED <<report, sheet_name>>
    /\ UNCHANGED <<args, listing, report_filepaths, k, workbook, support_col, avg_row, output>>

\* workbook.save(save_filepath): the writer refuses a workbook without a
\* sheet.
Save ==
    /\ pc = "save"
    /\ IF Len(workbook) = 0
       THEN /\ Raise("IndexError")
            /\ UNCHANGED output
       ELSE /\ output' = [saved |-> TRUE, sheets |-> workbook]
            /\ pc' = "done"
            /\ UNCHANGED error
    /\ UNCHANGED <<args, listing, report_filepaths, k, report, sheet_name, workbook,
                   support_col, avg_row>>

(* --------------------- convert_report2excel's steps -------------------- *)

\* What a step of convert_report2excel leaves alone besides the workbook.
ConvertFrame == UNCHANGED <<args, listing, report_filepaths, k, sheet_name, output>>

\* A step that only restyles the sheet and moves on.
Restyle(ws, next) ==
    /\ workbook' = WithWorksheet(workbook, ws)
    /\ pc' = next
    /\ UNCHANGED <<report, support_col, avg_row, error>>
    /\ ConvertFrame

\* The label column renamed, the sheet created and the rows appended.
WriteSheet ==
    /\ pc = "create"
    /\ report' = RenameColumns(report)
    /\ workbook' = CreateSheet(workbook, report', sheet_name)
    /\ pc' = "outer"
    /\ UNCHANGED <<support_col, avg_row, error>>
    /\ ConvertFrame

OuterBoundaryStep ==
    /\ pc = "outer"
    /\ Restyle(OuterBoundary(worksheet, report), "header")

HeaderBoundaryStep ==
    /\ pc = "header"
    /\ Restyle(HeaderBoundary(worksheet, report), "support")

\* report.columns.get_loc("support") raises KeyError without the column.
SupportBoundaryStep ==
    /\ pc = "support"
    /\ IF HasColumn(report, "support")
       THEN /\ support_col' = ColumnOf(report, "support")
            /\ workbook' = WithWorksheet(workbook, SupportBoundary(worksheet, report, support_col'))
            /\ pc' = "label"
            /\ UNCHANGED error
       ELSE /\ Raise("KeyError")
            /\ UNCHANGED <<support_col, workbook>>
    /\ UNCHANGED <<report, avg_row>>
    /\ ConvertFrame

LabelBoundaryStep ==
    /\ pc = "label"
    /\ Restyle(LabelBoundary(worksheet, report), "divider")

AvgDividerStep ==
    /\ pc = "divider"
    /\ avg_row' = AvgRow(report)
    /\ workbook' = WithWorksheet(workbook, AvgDivider(worksheet, report))
    /\ pc' = "gradient"
    /\ UNCHANGED <<report, support_col, error>>
    /\ ConvertFrame

\* Conditional formatting.  get_loc("precision") raises KeyError without
\* the column.  The library builds a CellRange from the range string, which
\* raises ValueError when the first column lies right of the last one, that
\* is when the `precision` column is not left of `support`.
ConditionalFormattingStep ==
    /\ pc = "gradient"
    /\ IF ~HasColumn(report, "precision")
       THEN /\ Raise("KeyError")
            /\ UNCHANGED workbook
       ELSE IF GridRange(report, avg_row, support_col).min_col
                 > GridRange(report, avg_row, support_col).max_col
       THEN /\ Raise("ValueError")
            /\ UNCHANGED workbook
       ELSE /\ workbook' = WithWorksheet(workbook,
                   AddConditionalFormatting(worksheet, GridRange(report, avg_row, support_col)))
            /\ pc' = "fonts"
            /\ UNCHANGED error
    /\ UNCHANGED <<report, support_col, avg_row>>
    /\ ConvertFrame

FormatFontsStep ==
    /\ pc = "fonts"
    /\ Restyle(FormatFonts(worksheet, report), "precision")

FormatPrecisionStep ==
    /\ pc = "precision"
    /\ Restyle(FormatPrecision(worksheet, report, support_col), "accuracy")

\* The accuracy fix and the return to main's loop.  report["class"] raises
\* KeyError when no column is called `class`; get_loc("recall") raises it
\* after the precision cell was blanked.
FixAccuracyStep ==
    /\ pc = "accuracy"
    /\ IF ~HasColumn(report, "class")
       THEN /\ Raise("KeyError")
            /\ UNCHANGED <<workbook, k>>
       ELSE IF RowsLabelled(report, "accuracy") # {} /\ ~HasColumn(report, "recall")
       THEN /\ workbook' = WithWorksheet(workbook, BlankPrecision(worksheet, report, avg_row))
            /\ Raise("KeyError")
            /\ UNCHANGED k
       ELSE /\ workbook' =
                  IF RowsLabelled(report, "accuracy") # {}
                  THEN WithWorksheet(workbook, FixAccuracy(worksheet, report, avg_row, support_col))
                  ELSE workbook
            /\ k' = k + 1
            /\ pc' = IF k' > Len(report_filepaths) THEN "save" ELSE "read"
            /\ UNCHANGED error
    /\ UNCHANGED <<args, listing, report_filepaths, report, sheet_name, support_col, avg_row, output>>

(* ---------------------------- specifications --------------------------- *)

Next ==
    \/ MainStart
    \/ ReadCsv
    \/ WriteSheet
    \/ OuterBoundaryStep
    \/ HeaderBoundaryStep
    \/ SupportBoundaryStep
    \/ LabelBoundaryStep
    \/ AvgDividerStep
    \/ ConditionalFormattingStep
    \/ FormatFontsStep
    \/ FormatPrecisionStep
    \/ FixAccuracyStep
    \/ Save

\* One file to convert at most, holding any report within the bounds.
Init == InitOf({<<>>}, {<<"a">>}, Reports \cup {Malformed}, 1, FALSE)

Spec == Init /\ [][Next]_vars

\* The reports of the runs over several files: one with an `accuracy` row,
\* one without aggregate rows, one without `support`, one without
\* `precision`.
MainReports ==
    {[ok |-> TRUE, cols |-> <<"Unnamed: 0", "precision", "recall", "support">>,
      labels |-> <<"A", "accuracy", "A">>],
     [ok |-> TRUE, cols |-> <<"Unnamed: 0", "precision", "support">>, labels |-> <<"A">>],
     [ok |-> TRUE, cols |-> <<"Unnamed: 0", "precision", "recall">>, labels |-> <<"A">>],
     [ok |-> TRUE, cols |-> <<"Unnamed: 0", "recall", "support">>, labels |-> <<"A">>]}

\* A directory of up to MaxFiles files.
InitMain == InitOf(Dirs, FileNames, MainReports \cup {Malformed}, MaxFiles, TRUE)

SpecMain == InitMain /\ [][Next]_vars

(* ------------------------- notions of the claims ----------------------- *)

\* convert_report2excel is past the writing of the rows and not yet at the
\* accuracy fix.
Formatting ==
    pc \in {"outer", "header", "support", "label", "divider", "gradient", "fonts",
            "precision", "accuracy"}

\* convert_report2excel has returned and main has not read another file:
\* `report` is the table converted and `worksheet` the sheet made from it.
Returned == pc \in {"read", "save", "done"} /\ k > 1

\* The divider step is behind.
PastDivider == pc \in {"gradient", "fonts", "precision", "accuracy"} \/ Returned

\* The value the table gives the sheet cell p: the header in row 1, table row
\* i in row i + 1, nothing outside.
ImageValue(p) ==
    IF p[2] > NCols(report) \/ p[1] > NRows(report) + 1 THEN None
    ELSE IF p[1] = 1 THEN Str(report.cols[p[2]])
    ELSE TableValue(report, p[1] - 1, p[2])

HasAccuracy == RowsLabelled(report, "accuracy") # {}

\* The sheet row of the first `accuracy` row, else of the first `micro avg`
\* row: table row i is sheet row i + 1.
MarkerSheetRow ==
    IF HasAccuracy THEN MinOf(RowsLabelled(report, "accuracy")) + 1
    ELSE MinOf(RowsLabelled(report, "micro avg")) + 1

\* The sheet rows with a cell whose top border is thick.
ThickRows == {p[1] : p \in {q \in Grid : worksheet.cells[q].border.top = "thick"}}

\* The sides of the cells of the sheet that are thick.
NoThickSide ==
    \A p \in Grid :
        LET b == worksheet.cells[p].border
        IN b.left # "thick" /\ b.right # "thick" /\ b.top # "thick" /\ b.bottom # "thick"

\* The table meets the input constraints of the conversion: a label column
\* called `class` once renamed, and `precision` left of `support`.
MeetsConstraints(t) ==
    /\ t.ok
    /\ NCols(t) >= 1 /\ t.cols[1] \in {"Unnamed: 0", "index", "class"}
    /\ HasColumn(t, "precision") /\ HasColumn(t, "support")
    /\ ColumnOf(t, "precision") < ColumnOf(t, "support")

(* -------------------------------- claims ------------------------------- *)

C2_AccuracyRow ==
    (Returned /\ HasAccuracy /\ avg_row <= NRows(report)) =>
        /\ worksheet.cells[<<avg_row, ColumnOf(report, "precision")>>].value = Str("")
        /\ worksheet.cells[<<avg_row, ColumnOf(report, "recall")>>].value = Str("")
        /\ worksheet.cells[<<avg_row, support_col>>].value
              = TableValue(report, avg_row, support_col)

\* C3 as stated: after the conversion, when the first column has an `accuracy` row (else a
\* `micro avg` row), the thick top border is on exactly the sheet row one
\* below that row, in every column 1..m, and nowhere else.
C3_DividerBelowMarker ==
    (Returned /\ DividerFound(report)) =>
        /\ ThickRows = {MarkerSheetRow + 1}
        /\ \A p \in Grid :
              worksheet.cells[p].border.top = "thick" <=> (p[1] \in ThickRows /\ p[2] <= NCols(report))

\* C3 amended: the thick top border is on exactly the sheet row of the first
\* `accuracy` (else `micro avg`) row itself, in every column 1..m, and on no
\* other cell; no other side of any cell is thick.
C3_DividerOnMarker ==
    (PastDivider /\ DividerFound(report)) =>
        /\ avg_row = MarkerSheetRow
        /\ \A p \in Grid :
              LET b == worksheet.cells[p].border
              IN /\ b.top = "thick" <=> (p[1] = MarkerSheetRow /\ p[2] <= NCols(report))
                 /\ b.left # "thick" /\ b.right # "thick" /\ b.bottom # "thick"

\* C3 witness: a table whose `accuracy` row is followed by another row was
\* converted.
C3_Witness ==
    /\ Returned /\ HasAccuracy
    /\ MarkerSheetRow <= NRows(report)

\* C4: when the first column has neither `accuracy` nor `micro avg`, the
\* divider step raises nothing and draws nothing: no side of any cell is
\* thick and avg_row keeps its default; a run that fails fails at a column
\* lookup or at the range of the color scale, never for a table that meets
\* the input constraints; and on return the sheet is in the workbook with
\* the color-scale rule, the fonts and the number format applied.
C4_NoMarkerNoDivider ==
    (report.ok /\ ~DividerFound(report)) =>
        /\ (Formatting \/ Returned) => NoThickSide
        /\ PastDivider => avg_row = NRows(report) + 2
        /\ (pc = "failed" /\ Len(workbook) > 0) =>
              /\ error \in {"KeyError", "ValueError"}
              /\ ~MeetsConstraints(report)
        /\ Returned =>
              /\ Len(workbook) = k - 1
              /\ Len(worksheet.cf) = 1
              /\ \A p \in Grid :
                    (p[1] <= NRows(report) + 1 /\ p[2] <= NCols(report)) =>
                        worksheet.cells[p].font.name = "Arial"
              /\ \A p \in Grid :
                    (p[1] \in 2..(NRows(report) + 1) /\ p[2] \in 2..(support_col - 1)) =>
                        worksheet.cells[p].number_format = float_prec

\* C4 witness: a table with a row and no aggregate row was converted.
C4_Witness ==
    /\ Returned
    /\ NRows(report) >= 1
    /\ ~DividerFound(report)

\* C5: after the conversion the cells with the number format 0.0000 are
\* exactly the cells of sheet rows 2..n+1 in the columns strictly between the
\* label column and `support`; in particular no cell of the header row, the
\* label column or the `support` column has it.
C5_FourDecimals ==
    Returned =>
        \A p \in Grid :
            worksheet.cells[p].number_format = float_prec
               <=> (p[1] \in 2..(NRows(report) + 1) /\ 1 < p[2] /\ p[2] < support_col)

\* C5 witness: a table with rows and two columns between the label column
\* and `support` was converted.
C5_Witness ==
    /\ Returned
    /\ NRows(report) >= 2
    /\ support_col = 4

FinishedSheets == IF Formatting THEN Len(workbook) - 1 ELSE Len(workbook)

C7_OuterBorder ==
    (Returned /\ NRows(report) >= 1) =>
        /\ \A c \in 1..NCols(report) :
              /\ worksheet.cells[<<1, c>>].border.top = "thin"
              /\ worksheet.cells[<<NRows(report) + 1, c>>].border.bottom = "thin"
        /\ \A r \in 1..(NRows(report) + 1) :
              /\ worksheet.cells[<<r, 1>>].border.left = "thin"
              /\ worksheet.cells[<<r, NCols(report)>>].border.right = "thin"

\* C8: the color-scale rule spans the columns from `precision` to the one
\* left of `support`, and its rows include every data row 2..n+1 and end at
\* row n + 1.
C8_ColorScaleRows ==
    Returned =>
        /\ Len(worksheet.cf) = 1
        /\ worksheet.cf[1].min_col = ColumnOf(report, "precision")
        /\ worksheet.cf[1].max_col = support_col - 1
        /\ worksheet.cf[1].min_row <= 2
        /\ worksheet.cf[1].max_row = NRows(report) + 1

\* The files of the run whose table lacks `support` or `precision`.
LacksColumn(j) ==
    /\ ContentOf(report_filepaths[j]).ok
    /\ \/ ~HasColumn(ContentOf(report_filepaths[j]), "support")
       \/ ~HasColumn(ContentOf(report_filepaths[j]), "precision")

\* C9: when the table of the j-th file lacks `support` or `precision`, the
\* run never gets past that file: its conversion never reaches the steps
\* after the lookups, no later file is read, the workbook is never saved,
\* and the run, once it fails at that file, has failed with KeyError.
C9_MissingColumnAborts ==
    \A j \in 1..Len(report_filepaths) :
        LacksColumn(j) =>
            /\ k <= j
            /\ Len(workbook) <= j
            /\ ~output.saved /\ pc # "done" /\ pc # "save"
            /\ k = j => pc \notin {"fonts", "precision", "accuracy"}
            /\ (k = j /\ pc = "failed") => error = "KeyError"

\* C9 witness: the first file was converted and the second one, whose table
\* lacks a column, ended the run.
C9_Witness ==
    /\ pc = "failed"
    /\ k = 2
    /\ LacksColumn(2)
    /\ Len(workbook) = 2

\* C10: after the conversion of a table with a `predicted` column and an
\* `accuracy` row that another row follows, the `predicted` cell of the
\* `accuracy` row holds the support value of the row below, and the cells of
\* that row outside `precision`, `recall`, `support` and `predicted` are as
\* in the table.
C10_PredictedCell ==
    (Returned /\ HasAccuracy /\ avg_row <= NRows(report) /\ HasColumn(report, "predicted")) =>
        /\ worksheet.cells[<<avg_row, ColumnOf(report, "predicted")>>].value
              = worksheet.cells[<<avg_row + 1, support_col>>].value
        /\ \A c \in GridCols :
              (\A name \in {"precision", "recall", "support", "predicted"} :
                   c # ColumnOf(report, name))
                 => worksheet.cells[<<avg_row, c>>].value = ImageValue(<<avg_row, c>>)

====
